---- MODULE Spec2Model ----
(***************************************************************************)
(* A model of forklift: the Run Controller (runForklift), the secure-shell *)
(* setup check, the interactive Selection Engine (selectRepositories and   *)
(* its helpers) and the clone orchestrator (Harvester.HarvestRepository).  *)
(*                                                                         *)
(* Go strings are modelled as sequences of one-character strings, so that  *)
(* strings.ToLower, strings.TrimSpace, strings.Contains, strings.Split and *)
(* strconv.Atoi are computed character by character.                       *)
(***************************************************************************)
EXTENDS Integers, Sequences, FiniteSets, TLC

VARIABLES
    pc,             \* position of the run: see the actions below
    exitCode,       \* -1 while running, 0 on a normal return, 1 after os.Exit(1)
    ended,          \* the step at which the run ended, "" while it runs
    useHTTPS,       \* flag --https
    filterLang,     \* flag --language
    recursive,      \* flag --recursive
    destination,    \* flag --dest
    ssh,            \* what checkSSHSetup observed and did
    repos,          \* the current candidate collection
    input,          \* selectRepositories: the trimmed line read last
    selected,       \* selectRepositories: the accumulated selection
    caller,         \* selectRepositories: the sizes of repos and selected in the
                    \* suspended call that made this one, if there is one
    selectedRepos,  \* runForklift: the value selectRepositories returned
    destDir,        \* runForklift: the resolved destination directory
    idx,            \* runForklift: 1-based position in the clone loop
    fs,             \* repository paths this run has left on disk
    calls,          \* HarvestRepository calls of the latest loop iteration
    report,         \* result lines printed in the latest loop iteration
    attempts,       \* <<name, path>> of every item the clone loop has taken up
    parseIn,        \* arguments of a parseSelection call
    parseOut        \* its result

vars == <<pc, exitCode, ended, useHTTPS, filterLang, recursive, destination, ssh,
          repos, input, selected, caller, selectedRepos, destDir, idx, fs, calls,
          report, attempts, parseIn, parseOut>>

(***************************************************************************)
(* Bounds of the model.                                                    *)
(***************************************************************************)
\* longest candidate collection the Selection Engine is started on
MaxRepos == 2
\* longest collection the directory source returns in a whole run
MaxDiscovered == 3
\* longest input string given to parseSelection on its own
MaxInputLen == 4
\* largest collection size given to parseSelection on its own
MaxCount == 3

(***************************************************************************)
(* Strings.                                                                *)
(***************************************************************************)
UpperLetters ==
    <<"A","B","C","D","E","F","G","H","I","J","K","L","M",
      "N","O","P","Q","R","S","T","U","V","W","X","Y","Z">>

LowerLetters ==
    <<"a","b","c","d","e","f","g","h","i","j","k","l","m",
      "n","o","p","q","r","s","t","u","v","w","x","y","z">>

Digits == <<"0","1","2","3","4","5","6","7","8","9">>

Whitespace == {" ", "\t", "\n", "\r"}

LowerChar(c) ==
    IF \E i \in 1..26 : UpperLetters[i] = c
    THEN LowerLetters[CHOOSE i \in 1..26 : UpperLetters[i] = c]
    ELSE c

\* strings.ToLower
ToLower(s) == [i \in 1..Len(s) |-> LowerChar(s[i])]

\* strings.TrimSpace
TrimSpace(s) ==
    LET keep == {i \in 1..Len(s) : s[i] \notin Whitespace}
    IN  IF keep = {} THEN <<>>
        ELSE LET lo == CHOOSE i \in keep : \A j \in keep : i <= j
                 hi == CHOOSE i \in keep : \A j \in keep : j <= i
             IN  SubSeq(s, lo, hi)

\* strings.Contains
Contains(s, sub) ==
    \E i \in 0..(Len(s) - Len(sub)) : SubSeq(s, i + 1, i + Len(sub)) = sub

\* strings.HasPrefix
HasPrefix(s, p) == Len(s) >= Len(p) /\ SubSeq(s, 1, Len(p)) = p

\* strings.Split with a one-character separator
RECURSIVE Split(_, _)
Split(s, sep) ==
    LET at == {i \in 1..Len(s) : s[i] = sep}
    IN  IF at = {} THEN <<s>>
        ELSE LET i == CHOOSE k \in at : \A j \in at : k <= j
             IN  <<SubSeq(s, 1, i - 1)>> \o Split(SubSeq(s, i + 1, Len(s)), sep)

DigitValue(c) == (CHOOSE i \in 1..10 : Digits[i] = c) - 1

IsDigit(c) == \E i \in 1..10 : Digits[i] = c

RECURSIVE DigitsValue(_)
DigitsValue(s) ==
    IF s = <<>> THEN 0
    ELSE DigitsValue(SubSeq(s, 1, Len(s) - 1)) * 10 + DigitValue(s[Len(s)])

\* strconv.Atoi: an optional sign, then one or more decimal digits
Atoi(s) ==
    LET signed == s # <<>> /\ s[1] \in {"+", "-"}
        body   == IF signed THEN Tail(s) ELSE s
    IN  IF body = <<>> \/ \E i \in 1..Len(body) : ~IsDigit(body[i])
        THEN [ok |-> FALSE, val |-> 0]
        ELSE [ok |-> TRUE,
              val |-> IF signed /\ s[1] = "-" THEN 0 - DigitsValue(body)
                      ELSE DigitsValue(body)]

(***************************************************************************)
(* parseSelection.                                                         *)
(***************************************************************************)
\* ParsePart with a range that must grow: start < end
ParsePartStrictRange(rawPart, maxLen) ==
    LET part == TrimSpace(rawPart)
    IN  IF Contains(part, <<"-">>)
        THEN LET rangeParts == Split(part, "-")
             IN  IF Len(rangeParts) = 2
                 THEN LET s == Atoi(TrimSpace(rangeParts[1]))
                          e == Atoi(TrimSpace(rangeParts[2]))
                      IN  IF /\ s.ok /\ e.ok
                             /\ s.val > 0 /\ e.val > 0
                             /\ s.val <= maxLen /\ e.val <= maxLen
                             /\ s.val < e.val
                          THEN [k \in 1..(e.val - s.val + 1) |-> s.val + k - 2]
                          ELSE <<>>
                 ELSE <<>>
        ELSE LET n == Atoi(part)
             IN  IF n.ok /\ n.val > 0 /\ n.val <= maxLen
                 THEN <<n.val - 1>>
                 ELSE <<>>

\* the indices one comma-separated part contributes
ParsePart(rawPart, maxLen) ==
    LET part == TrimSpace(rawPart)
    IN  IF Contains(part, <<"-">>)
        THEN LET rangeParts == Split(part, "-")
             IN  IF Len(rangeParts) = 2
                 THEN LET s == Atoi(TrimSpace(rangeParts[1]))
                          e == Atoi(TrimSpace(rangeParts[2]))
                      IN  IF /\ s.ok /\ e.ok
                             /\ s.val > 0 /\ e.val > 0
                             /\ s.val <= maxLen /\ e.val <= maxLen
                             /\ s.val <= e.val
                          THEN [k \in 1..(e.val - s.val + 1) |-> s.val + k - 2]
                          ELSE <<>>
                 ELSE <<>>
        ELSE LET n == Atoi(part)
             IN  IF n.ok /\ n.val > 0 /\ n.val <= maxLen
                 THEN <<n.val - 1>>
                 ELSE <<>>

RECURSIVE ParseParts(_, _)
ParseParts(parts, maxLen) ==
    IF parts = <<>> THEN <<>>
    ELSE ParsePart(Head(parts), maxLen) \o ParseParts(Tail(parts), maxLen)

parseSelection(in, maxLen) == ParseParts(Split(in, ","), maxLen)

(***************************************************************************)
(* Repository records (forge.Repository).  A clone URL is kept as the pair *)
(* of its transport and the repository it addresses.                       *)
(***************************************************************************)
Repo(name, desc, lang) ==
    [Name |-> name, Description |-> desc, Language |-> lang,
     CloneURL |-> <<"https", name>>, SSHURL |-> <<"ssh", name>>]

sAll == <<"a","l","l">>
sDev == <<"d","e","v">>
sSsh == <<"s","s","h">>
sUnknown == <<"U","n","k","n","o","w","n">>
sGo == <<"G","o">>
sRust == <<"R","u","s","t">>
sHTML == <<"H","T","M","L">>
sCSS == <<"C","S","S">>
sSCSS == <<"S","C","S","S">>

\* The records candidate collections are drawn from: plain projects, one
\* record per way of failing the development heuristic, and near misses
\* (the word awesome without its hyphen, SCSS, a repository named css).
rApi == Repo(<<"a","p","i">>, <<>>, sGo)
rKit == Repo(<<"s","s","h","-","k","i","t">>, <<"a","w","e","s","o","m","e">>, sGo)
rSite == Repo(<<"s","i","t","e">>, <<>>, sHTML)
rDocs == Repo(<<"M","y","D","o","c","s">>, <<>>, sRust)
rLib == Repo(<<"l","i","b">>, <<"a"," ","B","l","o","g">>, sRust)
rCss == Repo(<<"c","s","s">>, <<>>, sSCSS)
rTool == Repo(<<"t","o","o","l">>, <<>>, <<"D","e","v">>)
rList == Repo(<<"A","w","e","s","o","m","e","-","g","o">>, <<>>, sCSS)
rWeb == Repo(<<"w">>, <<"W","e","b","s","i","t","e">>, sUnknown)
rMan == Repo(<<"m">>, <<"D","o","c","u","m","e","n","t","a","t","i","o","n">>, sGo)
rNum == Repo(<<"n","u","m">>, <<>>, <<"1">>)

Universe ==
    <<rApi, rKit, rSite, rDocs, rLib, rCss, rTool, rList, rWeb, rMan, rNum>>

\* the records of all at the positions in I, in the order of all
RECURSIVE Pick(_, _)
Pick(all, I) ==
    IF I = {} THEN <<>>
    ELSE LET i == CHOOSE k \in I : \A j \in I : k <= j
         IN  <<all[i]>> \o Pick(all, I \ {i})

\* the collections of at most n records drawn from all, records in the order
\* of all (names are unique within one owner's namespace)
Collections(all, n) ==
    {Pick(all, I) : I \in {J \in SUBSET (1..Len(all)) : Cardinality(J) <= n}}

(***************************************************************************)
(* Selection Engine: the helpers of selectRepositories.                    *)
(***************************************************************************)
filterByLanguage(rs, language) ==
    LET targetLang == ToLower(language)
        Match(r) == ToLower(r.Language) = targetLang
    IN  SelectSeq(rs, Match)

\* tryLanguageFilter comparing the language as it is written
tryLanguageFilterExact(rs, in) ==
    LET inputLower == ToLower(in)
        Match(r) == r.Language = inputLower
    IN  SelectSeq(rs, Match)

\* nil (here the empty sequence) when no record has the language
tryLanguageFilter(rs, in) ==
    LET inputLower == ToLower(in)
        Match(r) == ToLower(r.Language) = inputLower
    IN  SelectSeq(rs, Match)

excludeKeywords ==
    << <<"d","o","c","s">>,
       <<"d","o","c","u","m","e","n","t","a","t","i","o","n">>,
       <<"w","e","b","s","i","t","e">>,
       <<"b","l","o","g">>,
       <<"a","w","e","s","o","m","e","-">> >>

excludeLanguages == << <<"h","t","m","l">>, <<"c","s","s">> >>

\* isDevRepo looking for the keywords in the name as it is written
isDevRepoExactName(r) ==
    LET lowerDesc == ToLower(r.Description)
        lowerLang == ToLower(r.Language)
    IN  /\ ~\E k \in 1..Len(excludeKeywords) :
              \/ Contains(r.Name, excludeKeywords[k])
              \/ Contains(lowerDesc, excludeKeywords[k])
        /\ ~\E k \in 1..Len(excludeLanguages) : lowerLang = excludeLanguages[k]

isDevRepo(r) ==
    LET lowerName == ToLower(r.Name)
        lowerDesc == ToLower(r.Description)
        lowerLang == ToLower(r.Language)
    IN  /\ ~\E k \in 1..Len(excludeKeywords) :
              \/ Contains(lowerName, excludeKeywords[k])
              \/ Contains(lowerDesc, excludeKeywords[k])
        /\ ~\E k \in 1..Len(excludeLanguages) : lowerLang = excludeLanguages[k]

selectDevRepositories(rs) == SelectSeq(rs, isDevRepo)

\* AddIndex without the look for an item of the same name
AddIndexAgain(sel, i, rs) ==
    IF i >= 0 /\ i < Len(rs) THEN Append(sel, rs[i + 1]) ELSE sel

\* the body of the loop over indices: append repos[idx], unless an item of
\* that name has been selected already
AddIndex(sel, i, rs) ==
    IF i >= 0 /\ i < Len(rs)
    THEN IF \E k \in 1..Len(sel) : sel[k].Name = rs[i + 1].Name
         THEN sel
         ELSE Append(sel, rs[i + 1])
    ELSE sel

RECURSIVE AddIndices(_, _, _)
AddIndices(sel, indices, rs) ==
    IF indices = <<>> THEN sel
    ELSE AddIndices(AddIndex(sel, Head(indices), rs), Tail(indices), rs)

(***************************************************************************)
(* Paths.                                                                  *)
(***************************************************************************)
sCwd == <<"/","w">>
sHome == <<"/","h">>

\* path cleaning as far as the paths of the model need it: repeated
\* separators collapse and a trailing separator is dropped
RECURSIVE Clean(_)
Clean(p) ==
    IF \E i \in 1..(Len(p) - 1) : p[i] = "/" /\ p[i + 1] = "/"
    THEN LET i == CHOOSE k \in 1..(Len(p) - 1) : p[k] = "/" /\ p[k + 1] = "/"
         IN  Clean(SubSeq(p, 1, i) \o SubSeq(p, i + 2, Len(p)))
    ELSE IF Len(p) > 1 /\ p[Len(p)] = "/" THEN SubSeq(p, 1, Len(p) - 1)
    ELSE p

\* filepath.Join of two elements
Join(a, b) ==
    IF a = <<>> THEN Clean(b)
    ELSE IF b = <<>> THEN Clean(a)
    ELSE Clean(a \o <<"/">> \o b)

\* filepath.Abs, the working directory being known
Abs(p) == IF HasPrefix(p, <<"/">>) THEN Clean(p) ELSE Join(sCwd, p)

(***************************************************************************)
(* checkSSHSetup and testSSHConnection.                                    *)
(***************************************************************************)
keyFiles == <<"id_rsa", "id_ed25519", "id_ecdsa">>

\* what ~/.ssh may hold
SshDirFiles == {"id_rsa", "id_ed25519", "id_ecdsa", "known_hosts"}

\* what running `ssh -T git@github.com` may return: nil, an exit status, or
\* another error (the command could not be started)
ProbeResults ==
    {[kind |-> "nil", code |-> 0], [kind |-> "exit", code |-> 1],
     [kind |-> "exit", code |-> 255], [kind |-> "other", code |-> 0]}

\* lines the user may type at a confirmation prompt (the last one is an
\* end of input without a line)
ResponseLines ==
    { <<"y","\n">>, <<"Y","E","S","\n">>, <<" ","y","e","s"," ","\n">>,
      <<"n","\n">>, <<"\n">>, <<"y","e","a","h","\n">>, <<>> }

\* testSSHConnection taking only a nil error for a connection
testSSHConnectionNilOnly(err) == err.kind = "nil"

testSSHConnection(err) ==
    IF err.kind = "exit" THEN err.code = 1 ELSE err.kind = "nil"

NoProbe == [kind |-> "none", code |-> 0]

NoSSH ==
    [ran |-> FALSE, hasKey |-> FALSE, probe |-> NoProbe, asked |-> FALSE,
     response |-> <<>>, exits |-> FALSE]

\* the prompt "Continue anyway? (y/N)": TRUE when the answer ends the run
Declines(response) == response # <<"y">> /\ response # <<"y","e","s">>

\* checkSSHSetup on a key directory, a probe result and a typed line
checkSSHSetup(present, probe, line) ==
    LET hasKey == \E k \in 1..Len(keyFiles) : keyFiles[k] \in present
        response == TrimSpace(ToLower(line))
    IN  IF ~hasKey
        THEN [ran |-> TRUE, hasKey |-> FALSE, probe |-> NoProbe, asked |-> TRUE,
              response |-> response, exits |-> Declines(response)]
        ELSE IF testSSHConnection(probe)
        THEN [ran |-> TRUE, hasKey |-> TRUE, probe |-> probe, asked |-> FALSE,
              response |-> <<>>, exits |-> FALSE]
        ELSE [ran |-> TRUE, hasKey |-> TRUE, probe |-> probe, asked |-> TRUE,
              response |-> response, exits |-> Declines(response)]

(***************************************************************************)
(* The directory source (forge.Client.DiscoverRepositories).               *)
(***************************************************************************)
ApiRepo(r, lang, fork) ==
    [Name |-> r.Name, Description |-> r.Description, Language |-> lang,
     CloneURL |-> r.CloneURL, SSHURL |-> r.SSHURL, Fork |-> fork]

\* what the service lists for the owner: two Go projects, a fork, and a
\* repository whose language it has not determined
Listing ==
    <<ApiRepo(rApi, sGo, FALSE), ApiRepo(rLib, sRust, TRUE),
      ApiRepo(rKit, sGo, FALSE), ApiRepo(rWeb, <<>>, FALSE)>>

RECURSIVE DiscoverRepositories(_)
DiscoverRepositories(listed) ==
    IF listed = <<>> THEN <<>>
    ELSE LET repo == Head(listed)
             language == IF repo.Language = <<>> THEN sUnknown ELSE repo.Language
         IN  (IF repo.Fork THEN <<>>
              ELSE <<[Name |-> repo.Name, Description |-> repo.Description,
                      Language |-> language, CloneURL |-> repo.CloneURL,
                      SSHURL |-> repo.SSHURL]>>)
             \o DiscoverRepositories(Tail(listed))

(***************************************************************************)
(* The clone orchestrator (Harvester.HarvestRepository).                   *)
(***************************************************************************)
NoError == [isErr |-> FALSE, text |-> <<>>]

Error(text) == [isErr |-> TRUE, text |-> text]

\* error texts of a failed git.PlainClone
CloneErrors ==
    { <<"s","s","h",":","n","o">>, <<"S","S","H">>, <<"E","O","F">> }

\* outcomes of git.PlainClone; leaves: the directory is on disk afterwards
CloneOutcomes ==
    {[ok |-> TRUE, text |-> <<>>, leaves |-> TRUE]} \cup
    {[ok |-> FALSE, text |-> t, leaves |-> l] : t \in CloneErrors, l \in BOOLEAN}

\* os.Stat(path) finds the path: always when this run has left it on disk,
\* otherwise as the disk happens to be
StatOutcomes(path, disk) == IF path \in disk THEN {TRUE} ELSE BOOLEAN

sDirectory == <<"d","i","r","e","c","t","o","r","y"," ">>
sAlreadyExists == <<" ","a","l","r","e","a","d","y"," ","e","x","i","s","t","s">>
sFailedToHarvest ==
    <<"f","a","i","l","e","d"," ","t","o"," ","h","a","r","v","e","s","t",":"," ">>

\* error texts of the go-git calls made for the submodules
sNoWorktree == <<"b","a","r","e">>
sNoSubmodules == <<"E","O","F">>
sNoUpdate == <<"s","s","h",":","n","o">>
sFailedToCultivate == <<"s","u","b","m","o","d","u","l","e",":"," ">>

\* what the go-git calls of one cultivateSubmodules do: repo.Worktree and
\* worktree.Submodules succeed or not, and updates[i] tells whether the
\* update of the i-th submodule succeeds
SubmoduleRuns ==
    [worktree : BOOLEAN, listed : BOOLEAN,
     updates : {<<>>, <<TRUE>>, <<FALSE>>, <<TRUE, TRUE>>, <<TRUE, FALSE>>}]

\* the loop over the submodules: the first update that fails ends it
RECURSIVE UpdateSubmodules(_)
UpdateSubmodules(updates) ==
    IF updates = <<>> THEN NoError
    ELSE IF ~Head(updates) THEN Error(sFailedToCultivate \o sNoUpdate)
    ELSE UpdateSubmodules(Tail(updates))

cultivateSubmodules(run) ==
    IF ~run.worktree THEN Error(sNoWorktree)
    ELSE IF ~run.listed THEN Error(sNoSubmodules)
    ELSE IF Len(run.updates) = 0 THEN NoError
    ELSE UpdateSubmodules(run.updates)

\* HarvestRepository returning the error of cultivateSubmodules
HarvestRepositorySubmodulesFatal(url, path, exists, clone, subOK) ==
    IF exists
    THEN [url |-> url, path |-> path, existed |-> TRUE,
          err |-> Error(sDirectory \o path \o sAlreadyExists),
          cloneCalled |-> FALSE, subCalled |-> FALSE, warned |-> FALSE,
          left |-> FALSE]
    ELSE IF ~clone.ok
    THEN [url |-> url, path |-> path, existed |-> FALSE,
          err |-> Error(sFailedToHarvest \o clone.text),
          cloneCalled |-> TRUE, subCalled |-> FALSE, warned |-> FALSE,
          left |-> clone.leaves]
    ELSE [url |-> url, path |-> path, existed |-> FALSE,
          err |-> IF recursive /\ ~subOK
                  THEN Error(sFailedToCultivate \o sNoUpdate)
                  ELSE NoError,
          cloneCalled |-> TRUE, subCalled |-> recursive,
          warned |-> recursive /\ ~subOK, left |-> TRUE]

\* HarvestRepository without the look at the path
HarvestRepositoryUnchecked(url, path, exists, clone, subOK) ==
    IF ~clone.ok
    THEN [url |-> url, path |-> path, existed |-> exists,
          err |-> Error(sFailedToHarvest \o clone.text),
          cloneCalled |-> TRUE, subCalled |-> FALSE, warned |-> FALSE,
          left |-> clone.leaves]
    ELSE [url |-> url, path |-> path, existed |-> exists, err |-> NoError,
          cloneCalled |-> TRUE, subCalled |-> recursive,
          warned |-> recursive /\ ~subOK, left |-> TRUE]

\* HarvestRepository(url, path) when os.Stat reports exists, git.PlainClone
\* would end as clone and cultivateSubmodules would succeed iff subOK
HarvestRepository(url, path, exists, clone, subOK) ==
    IF exists
    THEN [url |-> url, path |-> path, existed |-> TRUE,
          err |-> Error(sDirectory \o path \o sAlreadyExists),
          cloneCalled |-> FALSE, subCalled |-> FALSE, warned |-> FALSE,
          left |-> FALSE]
    ELSE IF ~clone.ok
    THEN [url |-> url, path |-> path, existed |-> FALSE,
          err |-> Error(sFailedToHarvest \o clone.text),
          cloneCalled |-> TRUE, subCalled |-> FALSE, warned |-> FALSE,
          left |-> clone.leaves]
    ELSE [url |-> url, path |-> path, existed |-> FALSE, err |-> NoError,
          cloneCalled |-> TRUE, subCalled |-> recursive,
          warned |-> recursive /\ ~subOK, left |-> TRUE]

(***************************************************************************)
(* Inputs of a run.                                                        *)
(***************************************************************************)
\* values of --language: absent, or a language in another case
LanguageFlags == { <<>>, <<"G","O">> }

\* values of --dest: absent, or a directory written with a trailing slash
DestinationFlags == { <<>>, <<"/","d","/">> }

\* lines typed at the selection prompt
InputLines ==
    { <<"\n">>,
      <<"a","l","l","\n">>,
      <<"d","e","v","\n">>,
      <<"g","o","\n">>,
      <<" ","R","U","S","T"," ","\n">>,
      <<"h","t","m","l","\n">>,
      <<"D","e","v","\n">>,
      <<"1","\n">>,
      <<"3","\n">>,
      <<"2",",","2","\n">>,
      <<"1","-","2","\n">>,
      <<"2",","," ","1","\n">>,
      <<"0",",","9","\n">> }

\* lines typed at the destination prompt
DestinationLines ==
    { <<"\n">>, <<"~","/","c","/","\n">>, <<"r","\n">> }

(***************************************************************************)
(* The states before a run, before a selection session and before a call   *)
(* of parseSelection.                                                      *)
(***************************************************************************)
Idle ==
    /\ exitCode = -1
    /\ ended = ""
    /\ ssh = NoSSH
    /\ input = <<>>
    /\ selected = <<>>
    /\ caller = <<>>
    /\ selectedRepos = <<>>
    /\ destDir = <<>>
    /\ idx = 0
    /\ fs = {}
    /\ calls = <<>>
    /\ report = <<>>
    /\ attempts = <<>>
    /\ parseOut = <<>>

Init ==
    /\ pc = "start"
    /\ useHTTPS \in BOOLEAN
    /\ filterLang \in LanguageFlags
    /\ recursive \in BOOLEAN
    /\ destination \in DestinationFlags
    /\ repos = <<>>
    /\ parseIn = [in |-> <<>>, maxLen |-> 0]
    /\ Idle

(***************************************************************************)
(* runForklift, step by step.                                              *)
(***************************************************************************)
Exit(code, at) ==
    /\ pc' = IF code = 0 THEN "done" ELSE "exit"
    /\ exitCode' = code
    /\ ended' = at

\* --https: the setup check is not made
SkipSSHSetup ==
    /\ pc = "start"
    /\ useHTTPS
    /\ pc' = "discover"
    /\ UNCHANGED <<exitCode, ended, useHTTPS, filterLang, recursive, destination,
                   ssh, repos, input, selected, caller, selectedRepos, destDir, idx, fs,
                   calls, report, attempts, parseIn, parseOut>>

CheckSSHSetup ==
    /\ pc = "start"
    /\ ~useHTTPS
    /\ \E present \in SUBSET SshDirFiles, probe \in ProbeResults,
          line \in ResponseLines :
          /\ ssh' = checkSSHSetup(present, probe, line)
          /\ IF ssh'.exits
             THEN Exit(1, "ssh")
             ELSE pc' = "discover" /\ UNCHANGED <<exitCode, ended>>
    /\ UNCHANGED <<useHTTPS, filterLang, recursive, destination, repos, input,
                   selected, caller, selectedRepos, destDir, idx, fs, calls, report,
                   attempts, parseIn, parseOut>>

\* checkSSHSetup has returned: its local variables are gone
Returned(check) == [NoSSH EXCEPT !.ran = check.ran]

\* the call of DiscoverRepositories fails
DiscoverFails ==
    /\ pc = "discover"
    /\ Exit(1, "discover-error")
    /\ ssh' = Returned(ssh)
    /\ UNCHANGED <<useHTTPS, filterLang, recursive, destination, repos,
                   input, selected, caller, selectedRepos, destDir, idx, fs, calls,
                   report, attempts, parseIn, parseOut>>

Discover ==
    /\ pc = "discover"
    /\ \E listed \in Collections(Listing, MaxDiscovered) :
          /\ repos' = DiscoverRepositories(listed)
          /\ IF Len(repos') = 0
             THEN Exit(0, "discover")
             ELSE pc' = "filter" /\ UNCHANGED <<exitCode, ended>>
    /\ ssh' = Returned(ssh)
    /\ UNCHANGED <<useHTTPS, filterLang, recursive, destination, input,
                   selected, caller, selectedRepos, destDir, idx, fs, calls, report,
                   attempts, parseIn, parseOut>>

\* the --language pre-filter
PreFilter ==
    /\ pc = "filter"
    /\ IF filterLang # <<>>
       THEN /\ repos' = filterByLanguage(repos, filterLang)
            /\ IF Len(repos') = 0
               THEN Exit(0, "filter")
               ELSE pc' = "select" /\ UNCHANGED <<exitCode, ended>>
       ELSE pc' = "select" /\ UNCHANGED <<repos, exitCode, ended>>
    /\ UNCHANGED <<useHTTPS, filterLang, recursive, destination, ssh, input,
                   selected, caller, selectedRepos, destDir, idx, fs, calls, report,
                   attempts, parseIn, parseOut>>

(***************************************************************************)
(* selectRepositories: one action per branch of the loop body, each        *)
(* reading one line.                                                       *)
(***************************************************************************)
SelectionUnchanged ==
    UNCHANGED <<exitCode, ended, useHTTPS, filterLang, recursive, destination,
                ssh, destDir, idx, fs, calls, report, attempts, parseIn, parseOut>>

\* selectRepositories returns value; its local variables input and selected
\* are gone when runForklift goes on (CheckSelection)
Return(value) ==
    /\ selectedRepos' = value
    /\ pc' = "selected"
    /\ UNCHANGED <<repos, selected, caller>>

SelectEmpty ==
    /\ pc = "select"
    /\ \E line \in InputLines :
          /\ input' = TrimSpace(line)
          /\ input' = <<>>
          /\ Return(selected)
    /\ SelectionUnchanged

\* SelectAll returning what has been selected so far
SelectAllSelected ==
    /\ pc = "select"
    /\ \E line \in InputLines :
          /\ input' = TrimSpace(line)
          /\ input' # <<>>
          /\ input' = sAll
          /\ Return(selected)
    /\ SelectionUnchanged

SelectAll ==
    /\ pc = "select"
    /\ \E line \in InputLines :
          /\ input' = TrimSpace(line)
          /\ input' # <<>>
          /\ input' = sAll
          /\ Return(repos)
    /\ SelectionUnchanged

SelectDev ==
    /\ pc = "select"
    /\ \E line \in InputLines :
          /\ input' = TrimSpace(line)
          /\ input' # <<>>
          /\ input' # sAll
          /\ input' = sDev
          /\ Return(selectDevRepositories(repos))
    /\ SelectionUnchanged

\* SelectLanguage going on with what was selected
SelectLanguageKeepsSelected ==
    /\ pc = "select"
    /\ \E line \in InputLines :
          /\ input' = TrimSpace(line)
          /\ input' # <<>>
          /\ input' # sAll
          /\ input' # sDev
          /\ tryLanguageFilter(repos, input') # <<>>
          /\ repos' = tryLanguageFilter(repos, input')
          /\ caller' = <<[repos |-> Len(repos), selected |-> Len(selected)]>>
    /\ UNCHANGED <<pc, selected, selectedRepos>>
    /\ SelectionUnchanged

\* a language filter: selectRepositories calls itself on the matches; the
\* new call starts with nothing selected
SelectLanguage ==
    /\ pc = "select"
    /\ \E line \in InputLines :
          /\ input' = TrimSpace(line)
          /\ input' # <<>>
          /\ input' # sAll
          /\ input' # sDev
          /\ tryLanguageFilter(repos, input') # <<>>
          /\ repos' = tryLanguageFilter(repos, input')
          /\ selected' = <<>>
          /\ caller' = <<[repos |-> Len(repos), selected |-> Len(selected)]>>
    /\ UNCHANGED <<pc, selectedRepos>>
    /\ SelectionUnchanged

\* SelectNumeric taking every line that names an item, a language or not
SelectNumericBeforeLanguage ==
    /\ pc = "select"
    /\ \E line \in InputLines :
          /\ input' = TrimSpace(line)
          /\ input' # <<>>
          /\ input' # sAll
          /\ input' # sDev
          /\ \/ parseSelection(input', Len(repos)) # <<>>
             \/ tryLanguageFilter(repos, input') = <<>>
          /\ selected' = AddIndices(selected, parseSelection(input', Len(repos)), repos)
    /\ UNCHANGED <<pc, repos, caller, selectedRepos>>
    /\ SelectionUnchanged

SelectNumeric ==
    /\ pc = "select"
    /\ \E line \in InputLines :
          /\ input' = TrimSpace(line)
          /\ input' # <<>>
          /\ input' # sAll
          /\ input' # sDev
          /\ tryLanguageFilter(repos, input') = <<>>
          /\ selected' = AddIndices(selected, parseSelection(input', Len(repos)), repos)
    /\ UNCHANGED <<pc, repos, caller, selectedRepos>>
    /\ SelectionUnchanged

\* CheckSelection going on with an empty selection
CheckSelectionGoesOn ==
    /\ pc = "selected"
    /\ pc' = "dest"
    /\ input' = <<>>
    /\ selected' = <<>>
    /\ caller' = <<>>
    /\ UNCHANGED <<exitCode, ended, useHTTPS, filterLang, recursive, destination,
                   ssh, repos, selectedRepos, destDir, idx, fs, calls, report,
                   attempts, parseIn, parseOut>>

CheckSelection ==
    /\ pc = "selected"
    /\ IF Len(selectedRepos) = 0
       THEN Exit(0, "select")
       ELSE pc' = "dest" /\ UNCHANGED <<exitCode, ended>>
    /\ input' = <<>>
    /\ selected' = <<>>
    /\ caller' = <<>>
    /\ UNCHANGED <<useHTTPS, filterLang, recursive, destination, ssh, repos,
                   selectedRepos, destDir, idx, fs, calls,
                   report, attempts, parseIn, parseOut>>

(***************************************************************************)
(* getDestinationDirectory.                                                *)
(***************************************************************************)
\* the absolute path made of a non-empty line typed at the prompt
PromptedPath(in) ==
    Abs(IF HasPrefix(in, <<"~","/">>)
        THEN Join(sHome, SubSeq(in, 3, Len(in)))
        ELSE in)

HarvestUnchanged ==
    UNCHANGED <<useHTTPS, filterLang, recursive, destination, ssh, repos, input,
                selected, caller, selectedRepos, parseIn, parseOut>>

\* --dest is given; mkdirOK: os.MkdirAll succeeds
DestinationFromFlag ==
    /\ pc = "dest"
    /\ destination # <<>>
    /\ \E mkdirOK \in BOOLEAN :
          IF mkdirOK
          THEN /\ destDir' = destination
               /\ pc' = "harvest"
               /\ idx' = 1
               /\ UNCHANGED <<exitCode, ended>>
          ELSE Exit(1, "dest") /\ UNCHANGED <<destDir, idx>>
    /\ UNCHANGED <<fs, calls, report, attempts>>
    /\ HarvestUnchanged

\* one round of the prompt; a directory that cannot be made asks again
DestinationFromPrompt ==
    /\ pc = "dest"
    /\ destination = <<>>
    /\ \E line \in DestinationLines, mkdirOK \in BOOLEAN :
          LET in == TrimSpace(line)
          IN  IF in = <<>> \/ mkdirOK
              THEN /\ destDir' = IF in = <<>> THEN sCwd ELSE PromptedPath(in)
                   /\ pc' = "harvest"
                   /\ idx' = 1
              ELSE UNCHANGED <<destDir, pc, idx>>
    /\ UNCHANGED <<exitCode, ended, fs, calls, report, attempts>>
    /\ HarvestUnchanged

(***************************************************************************)
(* The clone loop of runForklift.                                          *)
(***************************************************************************)
\* the URL of the first attempt
FirstURL(repo) == IF useHTTPS THEN repo.CloneURL ELSE repo.SSHURL

\* the URL of the retry
RetryURL(repo) == repo.CloneURL

\* ShouldRetry whatever the error says
ShouldRetryAnyError(err) == ~useHTTPS

\* the condition under which a failed attempt is retried
ShouldRetry(err) == ~useHTTPS /\ Contains(err.text, sSsh)

\* what one call leaves on disk
Disk(disk, call) == IF call.left THEN disk \cup {call.path} ELSE disk

Warnings(call) == IF call.warned THEN <<"WARNING submodules">> ELSE <<>>

\* the results HarvestRepository(url, path) can have on a disk
HarvestOutcomes(url, path, disk) ==
    {HarvestRepository(url, path, exists, clone, subOK) :
        exists \in StatOutcomes(path, disk), clone \in CloneOutcomes,
        subOK \in {~cultivateSubmodules(run).isErr : run \in SubmoduleRuns}}

\* HarvestItem leaving the loop at the first item that fails
HarvestItemBreaks ==
    /\ pc = "harvest"
    /\ idx <= Len(selectedRepos)
    /\ LET repo     == selectedRepos[idx]
           repoPath == Join(destDir, repo.Name)
       IN  /\ attempts' = Append(attempts, <<repo.Name, repoPath>>)
           /\ \E first \in HarvestOutcomes(FirstURL(repo), repoPath, fs) :
                 IF first.err.isErr
                 THEN IF ShouldRetry(first.err)
                      THEN \E retry \in HarvestOutcomes(RetryURL(repo), repoPath,
                                                        Disk(fs, first)) :
                              /\ calls' = <<first, retry>>
                              /\ fs' = Disk(Disk(fs, first), retry)
                              /\ report' =
                                   <<"FAILED", "SSH failed, trying HTTPS">>
                                   \o Warnings(retry)
                                   \o <<IF retry.err.isErr
                                        THEN "HTTPS also failed"
                                        ELSE "harvested via HTTPS">>
                      ELSE /\ calls' = <<first>>
                           /\ fs' = Disk(fs, first)
                           /\ report' = <<"FAILED">>
                 ELSE /\ calls' = <<first>>
                      /\ fs' = Disk(fs, first)
                      /\ report' = Warnings(first) \o <<"harvested">>
    /\ idx' = IF calls'[Len(calls')].err.isErr
              THEN Len(selectedRepos) + 1
              ELSE idx + 1
    /\ UNCHANGED <<pc, exitCode, ended, destDir>>
    /\ HarvestUnchanged

\* one iteration of the loop, the retry included
HarvestItem ==
    /\ pc = "harvest"
    /\ idx <= Len(selectedRepos)
    /\ LET repo     == selectedRepos[idx]
           repoPath == Join(destDir, repo.Name)
       IN  /\ attempts' = Append(attempts, <<repo.Name, repoPath>>)
           /\ \E first \in HarvestOutcomes(FirstURL(repo), repoPath, fs) :
                 IF first.err.isErr
                 THEN IF ShouldRetry(first.err)
                      THEN \E retry \in HarvestOutcomes(RetryURL(repo), repoPath,
                                                        Disk(fs, first)) :
                              /\ calls' = <<first, retry>>
                              /\ fs' = Disk(Disk(fs, first), retry)
                              /\ report' =
                                   <<"FAILED", "SSH failed, trying HTTPS">>
                                   \o Warnings(retry)
                                   \o <<IF retry.err.isErr
                                        THEN "HTTPS also failed"
                                        ELSE "harvested via HTTPS">>
                      ELSE /\ calls' = <<first>>
                           /\ fs' = Disk(fs, first)
                           /\ report' = <<"FAILED">>
                 ELSE /\ calls' = <<first>>
                      /\ fs' = Disk(fs, first)
                      /\ report' = Warnings(first) \o <<"harvested">>
    /\ idx' = idx + 1
    /\ UNCHANGED <<pc, exitCode, ended, destDir>>
    /\ HarvestUnchanged

\* the loop is over: "Harvest completed!"
Complete ==
    /\ pc = "harvest"
    /\ idx > Len(selectedRepos)
    /\ Exit(0, "complete")
    /\ UNCHANGED <<destDir, idx, fs, calls, report, attempts>>
    /\ HarvestUnchanged

(***************************************************************************)
(* The whole run.                                                          *)
(***************************************************************************)
Next ==
    \/ SkipSSHSetup
    \/ CheckSSHSetup
    \/ DiscoverFails
    \/ Discover
    \/ PreFilter
    \/ SelectEmpty
    \/ SelectAll
    \/ SelectDev
    \/ SelectLanguage
    \/ SelectNumeric
    \/ CheckSelection
    \/ DestinationFromFlag
    \/ DestinationFromPrompt
    \/ HarvestItem
    \/ Complete

Spec == Init /\ [][Next]_vars

(***************************************************************************)
(* One selection session, on any candidate collection.                     *)
(***************************************************************************)
SelectInit ==
    /\ pc = "select"
    /\ useHTTPS = FALSE
    /\ filterLang = <<>>
    /\ recursive = TRUE
    /\ destination = <<>>
    /\ repos \in Collections(Universe, MaxRepos) \ {<<>>}
    /\ parseIn = [in |-> <<>>, maxLen |-> 0]
    /\ Idle

SelectNext ==
    \/ SelectEmpty
    \/ SelectAll
    \/ SelectDev
    \/ SelectLanguage
    \/ SelectNumeric

SelectSpec == SelectInit /\ [][SelectNext]_vars

(***************************************************************************)
(* One call of parseSelection, on any short input.                         *)
(***************************************************************************)
ParseAlphabet == {"0", "1", "2", "3", ",", "-", " ", "+", "x"}

\* the inputs that can reach parseSelection: trimmed and not empty
ParseInputs ==
    {s \in UNION {[1..n -> ParseAlphabet] : n \in 1..MaxInputLen} :
        TrimSpace(s) = s}

ParseInit ==
    /\ pc = "parse"
    /\ useHTTPS = FALSE
    /\ filterLang = <<>>
    /\ recursive = TRUE
    /\ destination = <<>>
    /\ repos = <<>>
    /\ parseIn \in [in : ParseInputs, maxLen : 1..MaxCount]
    /\ Idle

ParseSelection ==
    /\ pc = "parse"
    /\ parseOut' = parseSelection(parseIn.in, parseIn.maxLen)
    /\ pc' = "parsed"
    /\ UNCHANGED <<exitCode, ended, useHTTPS, filterLang, recursive, destination,
                   ssh, repos, input, selected, caller, selectedRepos, destDir, idx, fs,
                   calls, report, attempts, parseIn>>

ParseSpec == ParseInit /\ [][ParseSelection]_vars

(***************************************************************************)
(* C4.  The grammar of a numeric line, stated on the text: a token is the  *)
(* text between two commas; it denotes the integer n when, blanks around   *)
(* it aside, it is the decimal numeral of n, possibly after zeros and a    *)
(* plus sign.                                                              *)
(***************************************************************************)
RECURSIVE Numeral(_)
Numeral(n) ==
    IF n < 10 THEN <<Digits[n + 1]>>
    ELSE Numeral(n \div 10) \o <<Digits[(n % 10) + 1]>>

Denotes(tok, n) ==
    LET t == TrimSpace(tok)
    IN  \E sign \in {<<>>, <<"+">>}, z \in 0..Len(t) :
           t = sign \o [i \in 1..z |-> "0"] \o Numeral(n)

\* the k-th of the tokens of a line
Token(line, k) ==
    LET commas == {i \in 1..Len(line) : line[i] = ","}
        from == IF k = 1 THEN 0
                ELSE CHOOSE i \in commas :
                        Cardinality({j \in commas : j < i}) = k - 2
        to == IF k = Cardinality(commas) + 1 THEN Len(line) + 1
              ELSE CHOOSE i \in commas :
                      Cardinality({j \in commas : j < i}) = k - 1
    IN  SubSeq(line, from + 1, to - 1)

TokenCount(line) == Cardinality({i \in 1..Len(line) : line[i] = ","}) + 1

\* the indices the grammar gives one token on count items
TokenIndices(tok, count) ==
    LET singles == {n \in 1..count : Denotes(tok, n)}
        ranges == {ab \in (1..count) \X (1..count) :
                     /\ ab[1] <= ab[2]
                     /\ \E h \in 1..Len(tok) :
                           /\ tok[h] = "-"
                           /\ Denotes(SubSeq(tok, 1, h - 1), ab[1])
                           /\ Denotes(SubSeq(tok, h + 1, Len(tok)), ab[2])}
    IN  IF singles # {}
        THEN <<(CHOOSE n \in singles : TRUE) - 1>>
        ELSE IF ranges # {}
        THEN LET ab == CHOOSE x \in ranges : TRUE
             IN  [k \in 1..(ab[2] - ab[1] + 1) |-> ab[1] - 1 + (k - 1)]
        ELSE <<>>

RECURSIVE GrammarIndices(_, _, _)
GrammarIndices(line, k, count) ==
    IF k > TokenCount(line) THEN <<>>
    ELSE TokenIndices(Token(line, k), count) \o GrammarIndices(line, k + 1, count)

\* C4: parseSelection returns, in token order, n-1 for every token that is
\* an integer n with 1 <= n <= count and a-1..b-1 for every token a-b with
\* 1 <= a <= b <= count; every other token contributes nothing.
C4_ParseFollowsGrammar ==
    pc = "parsed" =>
        parseOut = GrammarIndices(parseIn.in, 1, parseIn.maxLen)

\* a line of three tokens whose middle token is skipped, the others taken in
\* token order
C4_Witness ==
    /\ pc = "parsed"
    /\ TokenCount(parseIn.in) = 3
    /\ parseOut = <<2, 0>>

\* a range of one item taken whole, between items out of range
C4_WitnessRange ==
    /\ pc = "parsed"
    /\ parseIn.in = <<"1", "-", "3">>
    /\ parseOut = <<0, 1, 2>>

(***************************************************************************)
(* Notions the claims about the Selection Engine are stated with.          *)
(***************************************************************************)
\* equality of two strings, letter case aside
SameFold(a, b) ==
    /\ Len(a) = Len(b)
    /\ \A i \in 1..Len(a) : LowerChar(a[i]) = LowerChar(b[i])

\* sub occurs in s, letter case aside
OccursFold(sub, s) ==
    \E i \in 1..Len(s), j \in 0..Len(s) : SameFold(SubSeq(s, i, j), sub)

\* small is made of records of big, in the order of big
IsSubCollection(small, big) ==
    \E I \in SUBSET (1..Len(big)) : small = Pick(big, I)

NoNameTwice(sel) ==
    \A i, j \in 1..Len(sel) : sel[i].Name = sel[j].Name => i = j

IsPrefix(a, b) == Len(a) <= Len(b) /\ SubSeq(b, 1, Len(a)) = a

\* the step reads a line on which the engine neither returns nor restarts
NumericStep ==
    /\ pc = "select"
    /\ pc' = "select"
    /\ input' \notin {<<>>, sAll, sDev}
    /\ ~\E i \in 1..Len(repos) : SameFold(repos[i].Language, input')

\* the step reads a line that is the language of some candidate
LanguageStep ==
    /\ pc = "select"
    /\ \E i \in 1..Len(repos) : SameFold(repos[i].Language, input')

\* the engine starts over on the candidates repos', all of the language read
Restarts ==
    /\ pc' = "select"
    /\ selected' = <<>>
    /\ \A i \in 1..Len(repos') : SameFold(repos'[i].Language, input')
    /\ IsSubCollection(repos', repos)

\* C3, as claimed: every line that is the language of a candidate restarts
\* the engine on a strict subset of the candidates.
C3_NarrowsStrictly ==
    [][LanguageStep => (Restarts /\ repos' # repos)]_vars

\* C3, amended: every line other than all and dev that is the language of a
\* candidate restarts the engine on a collection of candidates of that
\* language, a subset of the candidates that is the whole collection when
\* every candidate has the language.
C3_Narrows ==
    [][(LanguageStep /\ input' \notin {sAll, sDev}) =>
          /\ Restarts
          /\ (\A i \in 1..Len(repos) : SameFold(repos[i].Language, input'))
                => repos' = repos]_vars

\* the engine has restarted on two Go candidates after the line go
C3_Witness ==
    /\ pc = "select"
    /\ input = <<"g","o">>
    /\ selected = <<>>
    /\ Len(repos) = 2
    /\ \A i \in 1..Len(repos) : repos[i].Language = sGo

\* the position in indices at which the record r of rs is first named
FirstNamed(r, indices, rs) ==
    CHOOSE k \in 1..Len(indices) :
        /\ rs[indices[k] + 1] = r
        /\ \A j \in 1..(k - 1) : rs[indices[j] + 1] # r

\* C5: the accumulated selection never holds a name twice; a numeric line
\* only appends, to what was selected before, the named items that were not
\* selected yet, once each, in the order in which the line names them first.
C5_SelectionDeduplicates ==
    /\ []NoNameTwice(selected)
    /\ [][NumericStep =>
            LET indices == parseSelection(input', Len(repos))
                named == {repos[indices[k] + 1] : k \in 1..Len(indices)}
                old == {selected[k] : k \in 1..Len(selected)}
                added == SubSeq(selected', Len(selected) + 1, Len(selected'))
            IN  /\ IsPrefix(selected, selected')
                /\ {added[k] : k \in 1..Len(added)} = named \ old
                /\ NoNameTwice(selected')
                /\ \A i, j \in 1..Len(added) :
                      i < j => FirstNamed(added[i], indices, repos)
                                  < FirstNamed(added[j], indices, repos)
                /\ named \subseteq old => selected' = selected]_vars

\* both items were added second first, and the line 2,2 has changed nothing
C5_Witness ==
    /\ pc = "select"
    /\ input = <<"2", ",", "2">>
    /\ Len(repos) = 2
    /\ selected = <<repos[2], repos[1]>>

\* the keywords and languages of the development heuristic
HeuristicKeywords ==
    { <<"d","o","c","s">>,
      <<"d","o","c","u","m","e","n","t","a","t","i","o","n">>,
      <<"w","e","b","s","i","t","e">>,
      <<"b","l","o","g">>,
      <<"a","w","e","s","o","m","e","-">> }

HeuristicLanguages == { <<"h","t","m","l">>, <<"c","s","s">> }

Excluded(r) ==
    \/ \E w \in HeuristicKeywords : OccursFold(w, r.Name) \/ OccursFold(w, r.Description)
    \/ \E l \in HeuristicLanguages : SameFold(l, r.Language)

\* C6: on the line dev the engine returns at once, whatever is selected,
\* exactly the candidates that are not excluded, in their order.
C6_DevReturnsDevelopmentRepos ==
    (pc \in {"select", "selected"} /\ input = sDev) =>
        /\ pc = "selected"
        /\ selectedRepos =
              Pick(repos, {i \in 1..Len(repos) : ~Excluded(repos[i])})

\* dev has dropped one of two candidates while the other one was selected
C6_Witness ==
    /\ pc = "selected"
    /\ input = sDev
    /\ Len(repos) = 2
    /\ Len(selectedRepos) = 1
    /\ Len(selected) = 1
    /\ selected # selectedRepos

\* C7: on the line all the engine returns at once the whole current
\* candidate collection in its order, not the accumulated selection.
C7_AllReturnsCandidates ==
    (pc \in {"select", "selected"} /\ input = sAll) =>
        /\ pc = "selected"
        /\ repos # <<>>
        /\ selectedRepos = repos

\* all has returned both candidates although only the second was selected
C7_Witness ==
    /\ pc = "selected"
    /\ input = sAll
    /\ Len(repos) = 2
    /\ selected = <<repos[2]>>
    /\ selectedRepos = repos

(***************************************************************************)
(* Claims about the Run Controller and the clone orchestrator.             *)
(***************************************************************************)
\* the text holds the letters s, s, h in a row
HasSsh(text) ==
    \E i \in 1..(Len(text) - 2) :
        text[i] = "s" /\ text[i + 1] = "s" /\ text[i + 2] = "h"

\* the item of the latest iteration of the clone loop
LatestItem == selectedRepos[idx - 1]

\* C1: an item is retried if and only if the run is in secure-shell mode and
\* its first attempt failed with a text holding ssh; the retry is the only
\* one, for the same path, with the HTTPS URL of the item; no item sees more
\* than two calls of the orchestrator.
C1_RetryOnlyAfterSshFailure ==
    calls # <<>> =>
        /\ Len(calls) <= 2
        /\ Len(calls) = 2 <=>
              (~useHTTPS /\ calls[1].err.isErr /\ HasSsh(calls[1].err.text))
        /\ Len(calls) = 2 =>
              /\ calls[2].url = LatestItem.CloneURL
              /\ calls[2].url # LatestItem.SSHURL
              /\ calls[2].path = calls[1].path

\* a retry was made, and failed too
C1_Witness ==
    /\ Len(calls) = 2
    /\ calls[1].cloneCalled
    /\ calls[2].err.isErr

RECURSIVE StripSlashes(_)
StripSlashes(dir) ==
    IF dir # <<>> /\ dir[Len(dir)] = "/"
    THEN StripSlashes(SubSeq(dir, 1, Len(dir) - 1))
    ELSE dir

\* path is the entry name of the directory dir
Under(dir, name, path) == path = StripSlashes(dir) \o <<"/">> \o name

C2_AttemptsInOrder ==
    (pc = "harvest" \/ ended = "complete") =>
        /\ Len(attempts) = idx - 1
        /\ Len(attempts) <= Len(selectedRepos)
        /\ \A i \in 1..Len(attempts) :
              /\ attempts[i][1] = selectedRepos[i].Name
              /\ Under(destDir, selectedRepos[i].Name, attempts[i][2])
        /\ \A k \in 1..Len(calls) : calls[k].path = attempts[Len(attempts)][2]
        /\ ended = "complete" =>
              Len(attempts) = Len(selectedRepos) /\ exitCode = 0

\* C2: whatever the clones do, the orchestrator is called for every selected
\* item, in selection order, on <destDir>/<name>; while items are left the
\* loop can and does only move on to the next one, and after the last one
\* the run can and does only complete, with exit code 0.
C2_EveryItemAttempted ==
    /\ []C2_AttemptsInOrder
    /\ [](pc = "harvest" =>
             IF idx <= Len(selectedRepos)
             THEN ENABLED HarvestItem
             ELSE ENABLED Complete)
    /\ [][pc = "harvest" =>
            IF idx <= Len(selectedRepos)
            THEN pc' = "harvest" /\ idx' = idx + 1 /\ exitCode' = -1
            ELSE pc' = "done" /\ ended' = "complete" /\ exitCode' = 0]_vars

\* the run has completed after two items, the first of which was not cloned
\* and the second of which failed twice
C2_Witness ==
    /\ ended = "complete"
    /\ Len(attempts) = 2
    /\ attempts[1][2] \notin fs
    /\ Len(calls) = 2
    /\ calls[2].err.isErr

\* C8: a call of the orchestrator on a path that exists returns an error and
\* starts no clone, as a first attempt and as a retry.
C8_ExistingPathFailsEarly ==
    \A k \in 1..Len(calls) :
        calls[k].existed =>
            /\ calls[k].err.isErr
            /\ ~calls[k].cloneCalled
            /\ ~calls[k].subCalled

\* both the first attempt and the retry have met the existing path
C8_Witness ==
    /\ Len(calls) = 2
    /\ calls[1].existed
    /\ calls[2].existed
    /\ calls[2].url[1] = "https"

NormalEnd == pc = "done" /\ exitCode = 0

\* C9: an empty discovery, an empty pre-filter result and an empty selection
\* each end the run normally at that step: nothing runs afterwards, no
\* destination is resolved and the orchestrator is not called.
C9_EmptyEndsRun ==
    /\ [][(pc = "discover" /\ pc' # "exit" /\ repos' = <<>>) => NormalEnd']_vars
    /\ [][(pc = "filter" /\ repos' = <<>>) => NormalEnd']_vars
    /\ [][(pc = "selected" /\ selectedRepos = <<>>) => NormalEnd']_vars
    /\ [][pc = "done" => FALSE]_vars
    /\ []((pc = "done" /\ (repos = <<>> \/ selectedRepos = <<>>)) =>
             /\ destDir = <<>>
             /\ idx = 0
             /\ attempts = <<>>
             /\ calls = <<>>
             /\ fs = {})

\* the pre-filter has left nothing of a discovered collection
C9_Witness ==
    /\ pc = "done"
    /\ ended = "filter"
    /\ filterLang # <<>>
    /\ repos = <<>>
    /\ destDir = <<>>

\* the selection session has returned nothing
C9_WitnessSelection ==
    /\ pc = "done"
    /\ ended = "select"
    /\ repos # <<>>
    /\ selectedRepos = <<>>

\* the probe has connected: it ended with status 0, or with the status 1 the
\* service gives an authenticated user
ProbePasses(probe) ==
    probe.kind = "nil" \/ (probe.kind = "exit" /\ probe.code = 1)

Confirms(response) == response \in { <<"y">>, <<"y","e","s">> }

\* C10: without --https the setup check comes before discovery; without a
\* key, or with a key and a failed probe, the run goes on to discovery only
\* if the user confirms and else exits with a code other than 0, nothing
\* discovered or cloned; a probe that passes asks nothing; with --https
\* there is no check.
C10_SetupCheckGatesDiscovery ==
    /\ [](pc = "start" => (~ssh.ran /\ repos = <<>> /\ attempts = <<>>))
    /\ [][pc = "start" =>
            /\ repos' = <<>>
            /\ attempts' = <<>>
            /\ IF useHTTPS
               THEN pc' = "discover" /\ ~ssh'.ran /\ ~ssh'.asked
               ELSE /\ ssh'.ran
                    /\ IF ~ssh'.hasKey \/ ~ProbePasses(ssh'.probe)
                       THEN /\ ssh'.asked
                            /\ IF Confirms(ssh'.response)
                               THEN pc' = "discover"
                               ELSE pc' = "exit" /\ exitCode' = 1
                       ELSE ~ssh'.asked /\ pc' = "discover"]_vars
    /\ [][pc = "exit" => FALSE]_vars

\* with a key and a refused connection the run has gone on after a yes
C10_Witness ==
    /\ pc = "discover"
    /\ ssh.hasKey
    /\ ssh.probe = [kind |-> "exit", code |-> 255]
    /\ ssh.asked
    /\ ssh.response = <<"y","e","s">>

\* without a key the run has ended on an answer other than y or yes
C10_WitnessDeclined ==
    /\ pc = "exit"
    /\ exitCode = 1
    /\ ssh.ran
    /\ ~ssh.hasKey
    /\ ssh.response = <<"y","e","a","h">>

(***************************************************************************)
(* Claims about submodules.                                                *)
(***************************************************************************)
\* C11: a call of the orchestrator in which the submodules failed after the
\* clone returns no error, is the last call for its item, and the item is
\* reported as harvested; submodules are attempted exactly in the calls of
\* a recursive run whose clone succeeded, so never without --recursive.
C11_SubmoduleFailureIsNotFatal ==
    \A k \in 1..Len(calls) :
        /\ calls[k].warned =>
              /\ recursive
              /\ calls[k].subCalled
              /\ ~calls[k].err.isErr
              /\ k = Len(calls)
              /\ report[Len(report)] =
                    (IF k = 1 THEN "harvested" ELSE "harvested via HTTPS")
              /\ k = 1 => "FAILED" \notin {report[i] : i \in 1..Len(report)}
        /\ calls[k].subCalled <=>
              (recursive /\ calls[k].cloneCalled /\ ~calls[k].err.isErr)
        /\ ~recursive => (~calls[k].subCalled /\ ~calls[k].warned)

\* in secure-shell mode the submodules of the first attempt have failed: the
\* item is reported as harvested and there was no retry
C11_Witness ==
    /\ recursive
    /\ ~useHTTPS
    /\ calls # <<>>
    /\ calls[1].warned
    /\ Len(calls) = 1
    /\ report = <<"WARNING submodules", "harvested">>

\* without --recursive a clone has succeeded and no submodule was touched
C11_WitnessNotRecursive ==
    /\ ~recursive
    /\ Len(calls) = 1
    /\ calls[1].cloneCalled
    /\ ~calls[1].err.isErr
    /\ ~calls[1].subCalled

(***************************************************************************)
(* Claims about the order in which a line is read and about narrowing.     *)
(***************************************************************************)
\* the candidates whose language is the line read, in their order
Matching ==
    Pick(repos, {i \in 1..Len(repos) : SameFold(repos[i].Language, input')})

\* C12: every line is read in the order empty, all, dev, language, numeric
\* list: the first case that applies decides what the engine does.  A line
\* other than all and dev that is the language of a candidate restarts the
\* engine on the candidates of that language and selects nothing, also when
\* it names an item; the line is parsed as a list of items only when no
\* candidate has it as language.
C12_PriorityOrder ==
    [][pc = "select" =>
         IF input' = <<>>
         THEN pc' = "selected" /\ selectedRepos' = selected
         ELSE IF input' = sAll
         THEN pc' = "selected" /\ selectedRepos' = repos
         ELSE IF input' = sDev
         THEN /\ pc' = "selected"
              /\ selectedRepos' =
                    Pick(repos, {i \in 1..Len(repos) : ~Excluded(repos[i])})
         ELSE IF Matching # <<>>
         THEN /\ pc' = "select"
              /\ repos' = Matching
              /\ selected' = <<>>
              /\ selectedRepos' = selectedRepos
         ELSE /\ pc' = "select"
              /\ repos' = repos
              /\ caller' = caller
              /\ selected' =
                    AddIndices(selected, parseSelection(input', Len(repos)), repos)
              /\ selectedRepos' = selectedRepos]_vars

\* the line 1 names the first of two candidates and is the language of the
\* second: the engine has restarted on the second and has selected nothing
C12_Witness ==
    /\ pc = "select"
    /\ input = <<"1">>
    /\ caller = <<[repos |-> 2, selected |-> 0]>>
    /\ repos = <<rNum>>
    /\ selected = <<>>

\* no candidate has the language 1: the line 1 has selected the first one
C12_WitnessNumeric ==
    /\ pc = "select"
    /\ input = <<"1">>
    /\ caller = <<>>
    /\ Len(repos) = 2
    /\ selected = <<repos[1]>>

IsCandidate(r) == \E i \in 1..Len(repos) : repos[i] = r

\* the line read last is the language of every candidate
JustNarrowed ==
    /\ pc = "select"
    /\ caller # <<>>
    /\ \A i \in 1..Len(repos) : SameFold(repos[i].Language, input)

\* C13: a narrowing leaves nothing selected, whatever was selected before
\* it, and candidates of the language read only; from then on the candidates
\* all have one language, every selected item and every returned item is one
\* of them, a numeric line adds the items at its positions among them, and
\* an empty line returns what is selected, nothing if it comes next.
C13_NarrowingDiscardsSelection ==
    /\ [][(pc = "select" /\ input' \notin {<<>>, sAll, sDev} /\ Matching # <<>>) =>
            /\ selected' = <<>>
            /\ repos' = Matching
            /\ caller' = <<[repos |-> Len(repos), selected |-> Len(selected)]>>
            /\ pc' = "select"]_vars
    /\ [](JustNarrowed => selected = <<>>)
    /\ [](caller # <<>> =>
             \A i, j \in 1..Len(repos) :
                SameFold(repos[i].Language, repos[j].Language))
    /\ [](\A k \in 1..Len(selected) : IsCandidate(selected[k]))
    /\ [](pc = "selected" =>
             \A k \in 1..Len(selectedRepos) : IsCandidate(selectedRepos[k]))
    /\ [][NumericStep =>
            LET indices == parseSelection(input', Len(repos))
            IN  \A k \in (Len(selected) + 1)..Len(selected') :
                   \E j \in 1..Len(indices) :
                      selected'[k] = repos[indices[j] + 1]]_vars
    /\ [][(pc = "select" /\ input' = <<>>) =>
            (pc' = "selected" /\ selectedRepos' = selected)]_vars

\* one of two candidates was selected, a language line has narrowed them to
\* one, and the empty line has returned nothing
C13_Witness ==
    /\ pc = "selected"
    /\ input = <<>>
    /\ caller = <<[repos |-> 2, selected |-> 1]>>
    /\ Len(repos) = 1
    /\ selected = <<>>
    /\ selectedRepos = <<>>

\* after a narrowing of two candidates to the second, the line 1 has
\* selected that one
C13_WitnessPositions ==
    /\ pc = "select"
    /\ input = <<"1">>
    /\ caller = <<[repos |-> 2, selected |-> 1]>>
    /\ repos = <<rMan>>
    /\ selected = <<rMan>>

====
